---- MODULE Spec2Model ----
(***************************************************************************)
(* rescan.py: reconciliation of a media tree against a Plex catalog.       *)
(* Strings are sequences of one-character strings, so that str.startswith, *)
(* len, os.path.normpath, os.path.dirname and os.path.splitext are         *)
(* computed on characters as the interpreter computes them.                *)
(***************************************************************************)
EXTENDS Integers, Sequences, FiniteSets, TLC

VARIABLES
    catalog,          \* the Plex server: [sections, items]
    disk,             \* the filesystem: [dirs, walk, broken]
    library_ids,      \* global dict: section type -> section key
    library_paths,    \* global dict: location -> section key
    library_files,    \* global defaultdict(set): section key -> set of files
    stats,            \* the RunStats of the run in progress
    scanned_folders,  \* run_scan's local set
    settings,         \* [symlink_check] of settings.behaviour, [directories] of settings.scan
    pc,               \* "idle" (scheduler loop), "walk" (inside run_scan), "crashed"
    di,               \* index in settings.scan.directories of the scan_path in progress
    todo,             \* files os.walk has still to yield for that scan_path
    run,              \* number of run_scan calls started
    changes,          \* number of changes of the catalog so far
    faults,           \* number of failed requests to the server in this run
    events,           \* changes of the catalog and failed requests so far
    requests,         \* refresh requests issued by scan_folder in this run
    fetches,          \* section item fetches made by cache_library_files in this run
    delivered,        \* summaries handed to send_discord_summary so far
    last,             \* what the last step of run_scan did
    plan,             \* the requests the server fails in every run, where its answers are fixed
    prev              \* the outcome of the run before this one, where it is kept

vars == <<catalog, disk, settings, library_ids, library_paths, library_files, stats,
          scanned_folders, pc, di, todo, run, changes, faults, events,
          requests, fetches, delivered, last, plan, prev>>

\* ------------------------------------------------------------ bounds
MaxRuns == 2
MaxEvents == 1

\* ------------------------------------------------------------ strings
None == "None"

\* truth value of an optional string (None and '' are false)
Truthy(v) == v # None /\ v # ""

startswith(s, p) == Len(p) <= Len(s) /\ SubSeq(s, 1, Len(p)) = p

\* str.split('/')
RECURSIVE split(_)
split(s) ==
    IF \A i \in 1..Len(s) : s[i] # "/" THEN <<s>>
    ELSE LET i == CHOOSE k \in 1..Len(s) :
                      s[k] = "/" /\ \A j \in 1..(k - 1) : s[j] # "/"
         IN  <<SubSeq(s, 1, i - 1)>> \o split(SubSeq(s, i + 1, Len(s)))

\* '/'.join(comps)
RECURSIVE join(_)
join(comps) ==
    IF comps = <<>> THEN <<>>
    ELSE IF Len(comps) = 1 THEN comps[1]
    ELSE comps[1] \o <<"/">> \o join(Tail(comps))

DOTDOT == <<".", ".">>

\* the loop of posixpath.normpath over the components
RECURSIVE normcomps(_, _, _)
normcomps(comps, new_comps, initial_slashes) ==
    IF comps = <<>> THEN new_comps
    ELSE LET comp == Head(comps)
             n == Len(new_comps)
         IN  IF comp = <<>> \/ comp = <<".">>
             THEN normcomps(Tail(comps), new_comps, initial_slashes)
             ELSE IF comp # DOTDOT
                     \/ (initial_slashes = 0 /\ n = 0)
                     \/ (n > 0 /\ new_comps[n] = DOTDOT)
             THEN normcomps(Tail(comps), Append(new_comps, comp), initial_slashes)
             ELSE IF n > 0
             THEN normcomps(Tail(comps), SubSeq(new_comps, 1, n - 1), initial_slashes)
             ELSE normcomps(Tail(comps), new_comps, initial_slashes)

slashes(n) == [i \in 1..n |-> "/"]

\* os.path.normpath (posixpath)
posix_normpath(path) ==
    IF path = <<>> THEN <<".">>
    ELSE LET initial_slashes ==
                 IF ~startswith(path, <<"/">>) THEN 0
                 ELSE IF startswith(path, <<"/", "/">>)
                         /\ ~startswith(path, <<"/", "/", "/">>) THEN 2
                 ELSE 1
             p == slashes(initial_slashes)
                    \o join(normcomps(split(path), <<>>, initial_slashes))
         IN  IF p = <<>> THEN <<".">> ELSE p

\* index of the last '/' of p, 0 when there is none (str.rfind('/') + 1)
rfindsep(p) ==
    IF \A i \in 1..Len(p) : p[i] # "/" THEN 0
    ELSE CHOOSE k \in 1..Len(p) : p[k] = "/" /\ \A j \in (k + 1)..Len(p) : p[j] # "/"

RECURSIVE rstripsep(_)
rstripsep(s) ==
    IF s # <<>> /\ s[Len(s)] = "/" THEN rstripsep(SubSeq(s, 1, Len(s) - 1)) ELSE s

\* os.path.dirname (posixpath)
dirname(p) ==
    LET head == SubSeq(p, 1, rfindsep(p))
    IN  IF head # <<>> /\ head # slashes(Len(head)) THEN rstripsep(head) ELSE head

\* os.path.join(root, file) (posixpath, two arguments)
pathjoin(root, file) ==
    IF startswith(file, <<"/">>) THEN file
    ELSE IF root = <<>> \/ root[Len(root)] = "/" THEN root \o file
    ELSE root \o <<"/">> \o file

\* str.lower() on the characters of the model
lowerchar(c) == IF c = "T" THEN "t" ELSE IF c = "S" THEN "s" ELSE c

lower(s) == [i \in 1..Len(s) |-> lowerchar(s[i])]

\* os.path.splitext(file)[1] (genericpath._splitext on a bare file name)
splitext1(file) ==
    LET sepIndex == rfindsep(file)
        dots == {i \in 1..Len(file) : file[i] = "."}
    IN  IF dots = {} THEN <<>>
        ELSE LET dotIndex == CHOOSE k \in dots : \A j \in dots : j <= k
             IN  IF dotIndex > sepIndex
                    /\ \E j \in (sepIndex + 1)..(dotIndex - 1) : file[j] # "."
                 THEN SubSeq(file, dotIndex, Len(file))
                 ELSE <<>>

\* ------------------------------------------------------------ configuration
\* the paths of the model: /m, /m/ (the same root written with a trailing
\* separator), /m/a, /m/ab, /n, /t
rM == <<"/", "m">>
rMslash == <<"/", "m", "/">>
rMA == <<"/", "m", "/", "a">>
rMAB == <<"/", "m", "/", "a", "b">>
rN == <<"/", "n">>
rT == <<"/", "t">>

fX == <<"x", ".", "t", "s">>
fY == <<"y", ".", "t", "s">>
fW == <<"w", ".", "t", "s">>
fE == <<"e", ".", "t", "s">>
fV == <<"v", ".", "T", "S">>
fL == <<"l", ".", "t", "s">>
fHidden == <<".", "h", ".", "t", "s">>
fText == <<"r", ".", "t", "x", "t">>

\* settings.scan.directories
Directories == settings.directories

MEDIA_EXTENSIONS ==
    { <<".", "m", "p", "4">>, <<".", "m", "k", "v">>, <<".", "a", "v", "i">>,
      <<".", "m", "o", "v">>, <<".", "w", "m", "v">>, <<".", "f", "l", "v">>,
      <<".", "w", "e", "b", "m">>, <<".", "m", "4", "v">>, <<".", "m", "4", "p">>,
      <<".", "m", "4", "b">>, <<".", "m", "4", "r">>, <<".", "3", "g", "p">>,
      <<".", "m", "p", "g">>, <<".", "m", "p", "e", "g">>, <<".", "m", "2", "v">>,
      <<".", "m", "2", "t", "s">>, <<".", "t", "s">>, <<".", "v", "o", "b">>,
      <<".", "i", "s", "o">> }

\* ------------------------------------------------------------ the catalog
Section(key, type, title, locations) ==
    [key |-> key, type |-> type, title |-> title, locations |-> locations]

secMovies(loc) == Section("1", "movie", "Movies", <<loc>>)
secTV(loc) == Section("2", "show", "TV", <<loc>>)
secMusic(loc) == Section("3", "artist", "Music", <<loc>>)

pX == pathjoin(rMA, fX)
pY == pathjoin(rMA, fY)
pW == pathjoin(rMAB, fW)
pE == pathjoin(rT, fE)

Items(i1, i2, i3) == [k \in {"1", "2", "3"} |-> IF k = "1" THEN i1 ELSE IF k = "2" THEN i2 ELSE i3]

\* the states the Plex server can be in: the sections it lists, in its order,
\* and the part files of each section's items
CatalogStates ==
    { \* two disjoint roots
      [sections |-> <<secMovies(rM), secTV(rT)>>, items |-> Items({pW}, {pE}, {})],
      \* the same roots, other files indexed
      [sections |-> <<secMovies(rM), secTV(rT)>>, items |-> Items({pX, pY}, {}, {})],
      \* nested roots, outer section listed first, then listed last
      [sections |-> <<secMovies(rM), secTV(rMA)>>, items |-> Items({pW}, {pX}, {})],
      [sections |-> <<secTV(rMA), secMovies(rM), secMusic(rT)>>,
       items |-> Items({pW}, {pX, pY}, {pE})],
      \* two sections on one directory, written /m/ and /m
      [sections |-> <<secMovies(rMslash), secTV(rM)>>, items |-> Items({pX}, {pY}, {})],
      \* no show section
      [sections |-> <<secMovies(rM), secMusic(rT)>>, items |-> Items({pX}, {}, {pE})] }

\* every path of the model: roots, folders and files
KnownPaths ==
    {rM, rMslash, rMA, rMAB, rN, rT}
    \cup {pathjoin(root, file) : root \in {rMA, rMAB, rT},
                                file \in {fX, fY, fW, fE, fV, fL, fHidden, fText}}

\* os.path.normpath of the paths of the model, computed once
Normalized == [path \in KnownPaths |-> posix_normpath(path)]

normpath(path) == IF path \in KnownPaths THEN Normalized[path] ELSE posix_normpath(path)

\* ------------------------------------------------------------ get_library_ids
RECURSIVE add_locations(_, _, _)
add_locations(paths, locations, lib_key) ==
    IF locations = <<>> THEN paths
    ELSE add_locations(
             [l \in DOMAIN paths \cup {Head(locations)} |->
                 IF l = Head(locations) THEN lib_key ELSE paths[l]],
             Tail(locations), lib_key)

\* the loop over plex.library.sections(): [ids, paths] after it
RECURSIVE get_library_ids(_, _, _)
get_library_ids(sections, ids, paths) ==
    IF sections = <<>> THEN [ids |-> ids, paths |-> paths]
    ELSE LET section == Head(sections)
         IN  get_library_ids(
                 Tail(sections),
                 [t \in DOMAIN ids \cup {section.type} |->
                     IF t = section.type THEN section.key ELSE ids[t]],
                 add_locations(paths, section.locations, section.key))

\* dict.get(key): None when absent
dictget(d, k) == IF k \in DOMAIN d THEN d[k] ELSE None

\* ------------------------------------------------------------ get_library_id_for_path
RECURSIVE section_locations(_, _)
section_locations(section, locations) ==
    IF locations = <<>> THEN <<>>
    ELSE <<[section_id |-> section.key, section_type |-> section.type,
            location_path |-> Head(locations), section_title |-> section.title]>>
         \o section_locations(section, Tail(locations))

RECURSIVE matching_sections(_)
matching_sections(sections) ==
    IF sections = <<>> THEN <<>>
    ELSE section_locations(Head(sections), Head(sections).locations)
         \o matching_sections(Tail(sections))

\* the test of line 335
path_matches(normalized_scan_path, normalized_location) ==
    startswith(normalized_scan_path, normalized_location)

\* line 337 written with >=: of two roots of one length the last listed wins
more_specific_or_equal(length, best_match_length) == length >= best_match_length

\* the test of line 337
more_specific(length, best_match_length) == length > best_match_length

\* the loop of lines 329-339; best_match is <<>> for None
RECURSIVE best_match(_, _, _, _)
best_match(ms, file_path, best, best_match_length) ==
    IF ms = <<>> THEN best
    ELSE LET m == Head(ms)
             normalized_scan_path == normpath(file_path)
             normalized_location == normpath(m.location_path)
         IN  IF path_matches(normalized_scan_path, normalized_location)
                /\ more_specific(Len(normalized_location), best_match_length)
             THEN best_match(Tail(ms), file_path,
                             <<m.section_id, m.section_title>>, Len(normalized_location))
             ELSE best_match(Tail(ms), file_path, best, best_match_length)

\* the answer to GET /library/sections: a RequestException, or the sections
Response(ok, sections) == [ok |-> ok, sections |-> IF ok THEN sections ELSE <<>>]

get_library_id_for_path(file_path, response) ==
    IF ~response.ok THEN <<None, None>>
    ELSE LET b == best_match(matching_sections(response.sections), file_path, <<>>, 0)
         IN  IF b # <<>> THEN b ELSE <<None, None>>

\* ------------------------------------------------------------ cache_library_files
\* line 351 without the test
cached_never(library_id, files) == FALSE

\* the test of line 351
cached(library_id, files) == library_id \in DOMAIN files

\* del library_files[library_id], when present
delete(files, library_id) == [k \in DOMAIN files \ {library_id} |-> files[k]]

\* library_files[library_id], which on a defaultdict(set) inserts set() for
\* an absent key: the dict after the access
getitem(files, library_id) ==
    [k \in DOMAIN files \cup {library_id} |->
        IF k \in DOMAIN files THEN files[k] ELSE {}]

\* the library_files[library_id].add(part.file) of a set of part files
add_files(files, library_id, parts) ==
    [k \in DOMAIN files \cup {library_id} |->
        IF k = library_id THEN getitem(files, library_id)[k] \cup parts ELSE files[k]]

\* the part files of the items of a section, as the server holds them
parts_of(items, library_id) == IF library_id \in DOMAIN items THEN items[library_id] ELSE {}

\* the part files read before the fetch of the items ended: all of them when
\* it succeeds, none or all of them when it raises
parts_read(items, library_id, build) ==
    IF build.ok \/ build.read = "all" THEN parts_of(items, library_id) ELSE {}

\* build is the outcome of the fetch of the section's items: [ok, read].
\* The dict after the call.
cache_library_files(files, library_id, build, items) ==
    IF cached(library_id, files) THEN files
    ELSE IF build.ok
    THEN getitem(add_files(files, library_id, parts_read(items, library_id, build)),
                 library_id)
    ELSE delete(add_files(files, library_id, parts_read(items, library_id, build)),
                library_id)

\* ------------------------------------------------------------ is_in_plex
\* lines 394-398, on library_files after the access of line 395
is_found(file_path, lib, after, fetched, parts) ==
    [found |-> file_path \in after[lib[1]], files |-> after, fetched |-> fetched,
     lib |-> lib, parts |-> parts]

\* lines 388-395 for the section resolved
check_library(file_path, lib, build, files, items) ==
    IF ~Truthy(lib[1])
    THEN [found |-> FALSE, files |-> files, fetched |-> FALSE, lib |-> lib, parts |-> {}]
    ELSE is_found(file_path, lib,
                  getitem(cache_library_files(files, lib[1], build, items), lib[1]),
                  ~cached(lib[1], files),
                  parts_read(items, lib[1], build))

\* [found, files, fetched, lib, parts]: the answer, library_files after the
\* call, whether the section's items were fetched, the section resolved and
\* the part files the fetch read
is_in_plex(file_path, response, build, files, items) ==
    check_library(file_path, get_library_id_for_path(file_path, response), build,
                  files, items)

\* ------------------------------------------------------------ scan_folder
\* scan_folder with time.sleep after the try statement
scan_folder_then_sleep(library_id, folder_path, ok) ==
    [library_id |-> library_id, folder_path |-> folder_path, ok |-> ok, slept |-> TRUE]

\* the request issued and whether time.sleep(scan_interval) followed it
scan_folder(library_id, folder_path, ok) ==
    [library_id |-> library_id, folder_path |-> folder_path, ok |-> ok, slept |-> ok]

\* is_broken_symlink
is_broken_symlink(file_path, fs) == file_path \in fs.broken

\* ------------------------------------------------------------ RunStats
RunStats ==
    [missing_items |-> <<>>, errors |-> <<>>, warnings |-> <<>>,
     total_scanned |-> 0, total_missing |-> 0, broken_symlinks |-> 0]

add_missing_item(st, library_name, file_path) ==
    [st EXCEPT
        !.missing_items =
            [n \in DOMAIN st.missing_items \cup {library_name} |->
                IF n \in DOMAIN st.missing_items
                THEN IF n = library_name
                     THEN Append(st.missing_items[n], file_path)
                     ELSE st.missing_items[n]
                ELSE <<file_path>>],
        !.total_missing = @ + 1]

\* add_error appending the message twice
add_error_twice(st, error) == [st EXCEPT !.errors = Append(Append(@, error), error)]

add_error(st, error) == [st EXCEPT !.errors = Append(@, error)]

add_warning(st, warning) == [st EXCEPT !.warnings = Append(@, warning)]

increment_scanned(st) == [st EXCEPT !.total_scanned = @ + 1]

\* increment_broken_symlinks counting the file as scanned too
increment_broken_and_scanned(st) ==
    [st EXCEPT !.broken_symlinks = @ + 1, !.total_scanned = @ + 1]

increment_broken_symlinks(st) == [st EXCEPT !.broken_symlinks = @ + 1]

\* ------------------------------------------------------------ the filesystem
Entry(root, file) == [root |-> root, file |-> file]

\* the entries of a walk that os.walk yields from folder too
RECURSIVE Below(_, _)
Below(folder, entries) ==
    IF entries = <<>> THEN <<>>
    ELSE (IF Head(entries).root = folder THEN <<Head(entries)>> ELSE <<>>)
         \o Below(folder, Tail(entries))

\* what os.walk yields, flattened to (root, file) in its order
Walk(ofM, ofT) ==
    [d \in {rM, rMA, rN, rT} |->
        IF d = rM THEN ofM
        ELSE IF d = rMA THEN Below(rMA, ofM)
        ELSE IF d = rT THEN ofT
        ELSE <<>>]

Disks ==
    { [dirs |-> {rM, rMA, rT},
       walk |-> Walk(<<Entry(rMA, fX), Entry(rMA, fY), Entry(rMAB, fW)>>,
                     <<Entry(rT, fHidden), Entry(rT, fE), Entry(rT, fL)>>),
       broken |-> {pathjoin(rT, fL)}],
      [dirs |-> {rM, rMA, rN, rT},
       walk |-> Walk(<<Entry(rMA, fY), Entry(rMAB, fV), Entry(rMA, fX)>>,
                     <<Entry(rT, fText), Entry(rT, fL)>>),
       broken |-> {pathjoin(rT, fL)}] }

\* ------------------------------------------------------------ run_scan
\* run_scan without line 427
clear_nothing(files) == files

\* library_files.clear() (line 427)
clear(files) == <<>>

\* the test of line 434
libraries_missing(ids) ==
    ~Truthy(dictget(ids, "movie")) \/ ~Truthy(dictget(ids, "show"))

\* line 479 without the test
not_scanned_unchecked(parent_folder, folders) == TRUE

\* the test of line 479
not_scanned(parent_folder, folders) == parent_folder \notin folders

\* run_scan without line 482
add_scanned_nothing(folders, parent_folder) == folders

\* scanned_folders.add(parent_folder) (line 482)
add_scanned(folders, parent_folder) == folders \cup {parent_folder}

NoLib == <<None, None>>

\* what a step did: the file, the section is_in_plex resolved and its answer,
\* whether it fetched the section's items, the section resolved at line 472,
\* the server's answer to the listing of is_in_plex, and what became of the
\* summary when the step handed it to send_discord_summary
Step(op, file_path, lib1, found, fetched, lib2) ==
    [op |-> op, file |-> file_path, lib1 |-> lib1, found |-> found,
     fetched |-> fetched, lib2 |-> lib2, listing |-> [ok |-> FALSE, sections |-> <<>>],
     summary |-> "none"]

\* what the body of the loop did for one file
Outcome(st, in_plex, folders, reqs, build, lib, file_path, r1) ==
    [stats |-> st,
     files |-> in_plex.files,
     folders |-> folders,
     requests |-> reqs,
     fetches |-> IF in_plex.fetched
                 THEN <<[library_id |-> in_plex.lib[1], ok |-> build.ok,
                         parts |-> in_plex.parts]>>
                 ELSE <<>>,
     step |-> [Step("file", file_path, in_plex.lib, in_plex.found, in_plex.fetched, lib)
                  EXCEPT !.listing = r1]]

\* lines 478-486
rescan(file_path, in_plex, lib, ok, st, folders, build, parent_folder, r1) ==
    IF ~not_scanned(parent_folder, folders)
    THEN Outcome(st, in_plex, folders, <<>>, build, lib, file_path, r1)
    ELSE IF Truthy(lib[1])
    THEN Outcome(st, in_plex, add_scanned(folders, parent_folder),
                 <<scan_folder(lib[1], parent_folder, ok)>>, build, lib, file_path, r1)
    ELSE Outcome(add_warning(st, <<"Could not determine library for path: ", file_path>>),
                 in_plex, folders, <<>>, build, lib, file_path, r1)

\* lines 473-486, lib being the section resolved at line 472
record_missing(file_path, in_plex, lib, ok, st, folders, build, r1) ==
    IF in_plex.found \/ ~Truthy(lib[2])
    THEN Outcome(st, in_plex, folders, <<>>, build, lib, file_path, r1)
    ELSE rescan(file_path, in_plex, lib, ok, add_missing_item(st, lib[2], file_path),
                folders, build, dirname(file_path), r1)

\* lines 471-486, in_plex being what is_in_plex answered
classify(file_path, in_plex, r1, r2, ok, st, folders, build) ==
    record_missing(file_path, in_plex,
                   IF in_plex.found THEN NoLib ELSE get_library_id_for_path(file_path, r2),
                   ok, st, folders, build, r1)

\* lines 469-486 for one candidate file, given the server's answers to the
\* listing of is_in_plex (r1), to the fetch of the section's items (build), to
\* the listing of line 472 (r2) and to the refresh request (ok)
reconcile(file_path, r1, build, r2, ok, st, files, folders, items) ==
    classify(file_path, is_in_plex(file_path, r1, build, files, items), r1, r2, ok,
             increment_scanned(st), folders, build)

\* the answers the server can give to a section listing now
Responses == {Response(TRUE, catalog.sections), Response(FALSE, <<>>)}

\* the outcomes of fetching the items of a section
Builds == {[ok |-> TRUE, read |-> "all"], [ok |-> FALSE, read |-> "none"],
           [ok |-> FALSE, read |-> "all"]}

Failures(flags) == Cardinality({i \in DOMAIN flags : flags[i]})

\* the requests of the step that failed
failed(after, r1, build, r2, ok) ==
    Failures(<<~r1.ok,
               after.step.fetched /\ ~build.ok,
               ~after.step.found /\ ~r2.ok,
               after.requests # <<>> /\ ~ok>>)

\* the assignments of the step, n of its requests having failed
Commit(after, n, budget) ==
    /\ events + n <= budget
    /\ events' = events + n
    /\ faults' = faults + n
    /\ stats' = after.stats
    /\ library_files' = after.files
    /\ scanned_folders' = after.folders
    /\ requests' = requests \o after.requests
    /\ fetches' = fetches \o after.fetches
    /\ last' = after.step

Reconciled(after, r1, build, r2, ok, budget) ==
    Commit(after, failed(after, r1, build, r2, ok), budget)

\* ------------------------------------------------------------ send_discord_summary
\* what the webhook can do with a summary: notifications disabled or no URL
\* (lines 120-126), sent, or an exception in the try block of lines 128-179
Sinks == {"off", "sent", "failed"}

\* send_discord_summary without the except clauses of lines 181-184
send_discord_summary_raising(st, sink) ==
    [stats |-> st, summary |-> sink, raised |-> sink = "failed"]

\* send_discord_summary: the summary reads the RunStats, and every exception of
\* the try block, those send_discord_webhook raises again included, is logged
send_discord_summary(st, sink) ==
    [stats |-> st, summary |-> sink, raised |-> FALSE]

\* where run_scan leaves the process after asyncio.run(stats.send_discord_summary())
returned(sent) == IF sent.raised THEN "crashed" ELSE "idle"

\* ------------------------------------------------------------ main
\* run_pending calling run_scan from a thread of its own
in_any_position(position) == position # "crashed"

\* lines 571-577: run_scan is called by main and by schedule.run_pending, in
\* the one thread of the process, between two turns of the loop
in_scheduler_loop(position) == position = "idle"

\* a set that keeps the folders of the run before
scanned_folders_kept == scanned_folders

\* set() (line 441)
empty_set == {}

\* lines 424-441: a run starts; plex.library.sections() raising ends the process
Begin ==
    /\ in_scheduler_loop(pc)
    /\ run < MaxRuns
    /\ run' = run + 1
    /\ library_files' = clear(library_files)
    /\ requests' = <<>>
    /\ fetches' = <<>>
    /\ faults' = 0
    /\ scanned_folders' = empty_set
    /\ di' = 0
    /\ todo' = <<>>
    /\ \E ok \in BOOLEAN, sink \in Sinks :
         IF ~ok
         THEN /\ pc' = "crashed"
              /\ stats' = RunStats
              /\ last' = Step("raise", <<>>, NoLib, FALSE, FALSE, NoLib)
              /\ UNCHANGED <<library_ids, library_paths, delivered>>
         ELSE LET g == get_library_ids(catalog.sections, library_ids, library_paths)
              IN  /\ library_ids' = g.ids
                  /\ library_paths' = g.paths
                  /\ IF libraries_missing(g.ids)
                     THEN LET sent == send_discord_summary(
                                          add_error(RunStats, <<"Could not find both Movie and TV Show libraries.">>),
                                          sink)
                          IN  /\ stats' = sent.stats
                              /\ delivered' = delivered + 1
                              /\ pc' = returned(sent)
                              /\ last' = [Step("abort", <<>>, NoLib, FALSE, FALSE, NoLib)
                                             EXCEPT !.summary = sent.summary]
                     ELSE /\ stats' = RunStats
                          /\ delivered' = delivered
                          /\ pc' = "walk"
                          /\ last' = Step("start", <<>>, NoLib, FALSE, FALSE, NoLib)
    /\ UNCHANGED <<catalog, disk, settings, changes, events>>

StartRun == Begin /\ UNCHANGED <<plan, prev>>

\* lines 443-452: the next scan_path
EnterDir ==
    /\ pc = "walk"
    /\ todo = <<>>
    /\ di < Len(Directories)
    /\ di' = di + 1
    /\ LET scan_path == Directories[di + 1]
       IN  IF scan_path \notin disk.dirs
           THEN /\ stats' = add_error(stats, <<"Directory not found: ", scan_path>>)
                /\ todo' = <<>>
           ELSE /\ stats' = stats
                /\ todo' = disk.walk[scan_path]
    /\ last' = Step("dir", <<>>, NoLib, FALSE, FALSE, NoLib)
    /\ UNCHANGED <<catalog, disk, settings, library_ids, library_paths, library_files,
                   scanned_folders, pc, run, changes, faults, events, requests,
                   fetches, delivered, plan, prev>>

\* the files os.walk yields
FilePaths ==
    {pathjoin(e.root, e.file) :
        e \in UNION {{disk.walk[d][i] : i \in DOMAIN disk.walk[d]} : d \in disk.dirs}}

\* the answers the server may give for each file when nothing fixes them: to
\* the listing of is_in_plex, to the fetch of the section's items, to the
\* listing of line 472 and to the refresh
AnyAnswers ==
    [file_path \in FilePaths |->
        [listing |-> Responses, build |-> Builds, relisting |-> Responses,
         refresh |-> BOOLEAN]]

\* lines 453-486: the body of the loop for the next file os.walk yields, the
\* server answering as answers allows
loop_body(answers, budget) ==
    /\ pc = "walk"
    /\ todo # <<>>
    /\ todo' = Tail(todo)
    /\ LET root == Head(todo).root
           file == Head(todo).file
           file_path == pathjoin(root, file)
       IN  IF startswith(file, <<".">>) \/ lower(splitext1(file)) \notin MEDIA_EXTENSIONS
           THEN /\ last' = Step("skip", file_path, NoLib, FALSE, FALSE, NoLib)
                /\ UNCHANGED <<stats, library_files, scanned_folders, requests, fetches,
                               faults, events>>
           ELSE IF settings.symlink_check /\ is_broken_symlink(file_path, disk)
           THEN /\ stats' = increment_broken_symlinks(stats)
                /\ last' = Step("broken", file_path, NoLib, FALSE, FALSE, NoLib)
                /\ UNCHANGED <<library_files, scanned_folders, requests, fetches, faults,
                               events>>
           ELSE \E r1 \in answers[file_path].listing, r2 \in answers[file_path].relisting,
                   build \in answers[file_path].build, ok \in answers[file_path].refresh :
                Reconciled(reconcile(file_path, r1, build, r2, ok, stats, library_files,
                                     scanned_folders, catalog.items),
                           r1, build, r2, ok, budget)
    /\ UNCHANGED <<catalog, disk, settings, library_ids, library_paths, pc, di, run,
                   changes, delivered>>

ProcessFile ==
    /\ loop_body(AnyAnswers, MaxEvents)
    /\ UNCHANGED <<plan, prev>>

\* lines 488-489: the summary is handed to send_discord_summary and run_scan returns
EndRun ==
    /\ pc = "walk"
    /\ todo = <<>>
    /\ di = Len(Directories)
    /\ \E sink \in Sinks :
         LET sent == send_discord_summary(stats, sink)
         IN  /\ stats' = sent.stats
             /\ pc' = returned(sent)
             /\ last' = [Step("end", <<>>, NoLib, FALSE, FALSE, NoLib)
                            EXCEPT !.summary = sent.summary]
    /\ delivered' = delivered + 1
    /\ UNCHANGED <<catalog, disk, settings, library_ids, library_paths, library_files,
                   scanned_folders, di, todo, run, changes, faults, events,
                   requests, fetches, plan, prev>>

\* the Plex server's libraries or items change, between two runs or two files
CatalogChange ==
    /\ pc \in {"idle", "walk"}
    /\ events < MaxEvents
    /\ events' = events + 1
    /\ changes' = changes + 1
    /\ catalog' \in CatalogStates \ {catalog}
    /\ last' = Step("change", <<>>, NoLib, FALSE, FALSE, NoLib)
    /\ UNCHANGED <<disk, settings, library_ids, library_paths, library_files, stats,
                   scanned_folders, pc, di, todo, run, faults, requests, fetches,
                   delivered, plan, prev>>

\* the filesystem and the settings the process runs with: /m, /n and /t
\* configured, with either filesystem, and /m/a configured before /m, which
\* holds it, with the first one
Setups ==
    { [disk |-> d,
       settings |-> [symlink_check |-> rN \notin d.dirs, directories |-> <<rM, rN, rT>>]] :
      d \in Disks }
    \cup { [disk |-> d,
            settings |-> [symlink_check |-> TRUE, directories |-> <<rMA, rM>>]] :
          d \in {fs \in Disks : rN \notin fs.dirs} }

\* no run before this one
NoRun == [valid |-> FALSE, stats |-> RunStats, requests |-> <<>>, changes |-> 0]

\* the process after main has loaded the settings and connected to the server
Boot ==
    /\ catalog \in CatalogStates
    /\ \E setup \in Setups : disk = setup.disk /\ settings = setup.settings
    /\ library_ids = <<>>
    /\ library_paths = <<>>
    /\ library_files = <<>>
    /\ stats = RunStats
    /\ scanned_folders = {}
    /\ pc = "idle"
    /\ di = 0
    /\ todo = <<>>
    /\ run = 0
    /\ changes = 0
    /\ faults = 0
    /\ events = 0
    /\ requests = <<>>
    /\ fetches = <<>>
    /\ delivered = 0
    /\ last = Step("none", <<>>, NoLib, FALSE, FALSE, NoLib)
    /\ prev = NoRun

Init == Boot /\ plan = {}

Next == StartRun \/ EnterDir \/ ProcessFile \/ EndRun \/ CatalogChange

Spec == Init /\ [][Next]_vars

\* ------------------------------------------------------------ run_scan twice
\* The process with the server's answers fixed for its lifetime: the requests
\* of plan fail in every run and every other request succeeds; the catalog
\* changes between runs only.
Operations == {"list", "fetch", "relist", "refresh"}

\* the requests run_scan can make for the files of a filesystem
PlanOps(fs) ==
    {<<pathjoin(e.root, e.file), op>> :
        e \in UNION {{fs.walk[d][i] : i \in DOMAIN fs.walk[d]} : d \in fs.dirs},
        op \in Operations}

\* the sets of at most n of these requests
RECURSIVE AtMost(_, _)
AtMost(n, ops) ==
    IF n = 0 THEN {{}}
    ELSE AtMost(n - 1, ops) \cup {failing \cup {op} : failing \in AtMost(n - 1, ops), op \in ops}

Plans(fs) == AtMost(MaxEvents, PlanOps(fs))

PlannedListing(file_path) == {Response(<<file_path, "list">> \notin plan, catalog.sections)}

PlannedBuild(file_path) ==
    {build \in Builds :
        /\ build.ok = (<<file_path, "fetch">> \notin plan)
        /\ build.read = IF build.ok THEN "all" ELSE "none"}

PlannedRelisting(file_path) ==
    {Response(<<file_path, "relist">> \notin plan, catalog.sections)}

PlannedRefresh(file_path) == {<<file_path, "refresh">> \notin plan}

PlannedAnswers ==
    [file_path \in FilePaths |->
        [listing |-> PlannedListing(file_path), build |-> PlannedBuild(file_path),
         relisting |-> PlannedRelisting(file_path), refresh |-> PlannedRefresh(file_path)]]

\* never reached: the events of SpecTwice are bounded by the plan and the runs
PlannedBudget == (MaxRuns + 1) * (MaxEvents + 1)

\* a run starts, the outcome of the run before it kept for comparison
StartAgain ==
    /\ Begin
    /\ prev' = [valid |-> run >= 1 /\ prev.changes = changes,
                stats |-> stats, requests |-> requests, changes |-> changes]
    /\ UNCHANGED plan

ProcessPlanned ==
    /\ loop_body(PlannedAnswers, PlannedBudget)
    /\ UNCHANGED <<plan, prev>>

ChangeBetweenRuns ==
    /\ pc = "idle"
    /\ changes + Cardinality(plan) < MaxEvents
    /\ changes' = changes + 1
    /\ events' = events + 1
    /\ catalog' \in CatalogStates \ {catalog}
    /\ last' = Step("change", <<>>, NoLib, FALSE, FALSE, NoLib)
    /\ UNCHANGED <<disk, settings, library_ids, library_paths, library_files, stats,
                   scanned_folders, pc, di, todo, run, faults, requests, fetches,
                   delivered, plan, prev>>

InitTwice == Boot /\ plan \in Plans(disk)

NextTwice == StartAgain \/ EnterDir \/ ProcessPlanned \/ EndRun \/ ChangeBetweenRuns

SpecTwice == InitTwice /\ [][NextTwice]_vars

\* ------------------------------------------------------------ properties
\* the files recorded as missing in this run
MissingPaths ==
    UNION { {stats.missing_items[t][i] : i \in DOMAIN stats.missing_items[t]} :
            t \in DOMAIN stats.missing_items }

RequestsFor(folder) == {i \in DOMAIN requests : requests[i].folder_path = folder}

\* C1: within a run no folder is the object of two refresh requests, whether
\* the first succeeded or failed, and two files recorded as missing that share
\* a parent folder have exactly one request between them.
C1_OneRequestPerFolder ==
    /\ \A i, j \in DOMAIN requests :
         requests[i].folder_path = requests[j].folder_path => i = j
    /\ \A p, q \in MissingPaths :
         (p # q /\ dirname(p) = dirname(q)) => Cardinality(RequestsFor(dirname(p))) = 1

\* two missing files of one folder, other files walked between them or not,
\* and the one request for the folder failed
C1_Witness ==
    \E p, q \in MissingPaths :
        /\ p # q
        /\ dirname(p) = dirname(q)
        /\ \E i \in RequestsFor(dirname(p)) : ~requests[i].ok
        /\ Len(requests) >= 2

\* the (section, root) pairs of a listing
Pairs(sections) ==
    LET ms == matching_sections(sections) IN {ms[i] : i \in DOMAIN ms}

\* the pairs whose normalized root the normalized path starts with
Matching(path, sections) ==
    {m \in Pairs(sections) :
        startswith(normpath(path), normpath(m.location_path))}

\* those of the greatest root length
Longest(path, sections) ==
    {m \in Matching(path, sections) :
        \A o \in Matching(path, sections) :
            Len(normpath(o.location_path)) <= Len(normpath(m.location_path))}

\* the listings that hold the same sections in another order
Reordered(sections) ==
    {[i \in DOMAIN sections |-> sections[f[i]]] : f \in Permutations(DOMAIN sections)}

Resolved == last.op = "file" /\ last.listing.ok

\* the first pair of the listing that is among the longest matching ones
FirstLongest(path, sections) ==
    LET ms == matching_sections(sections)
        i == CHOOSE k \in DOMAIN ms :
                 /\ ms[k] \in Longest(path, sections)
                 /\ \A j \in 1..(k - 1) : ms[j] \notin Longest(path, sections)
    IN  ms[i]

\* C2 as stated: the section of the longest matching root, not-found exactly
\* when no root matches, and the same answer for every order of the listing.
C2_LongestAnyOrder ==
    Resolved =>
        /\ (Matching(last.file, last.listing.sections) = {}) <=> (last.lib1 = NoLib)
        /\ last.lib1 # NoLib =>
               \E m \in Longest(last.file, last.listing.sections) :
                   last.lib1 = <<m.section_id, m.section_title>>
        /\ \A other \in Reordered(last.listing.sections) :
               get_library_id_for_path(last.file, Response(TRUE, other)) = last.lib1

\* C2, amended: the section of the longest matching root, the first listed
\* one when several sections own a root of that length; not-found exactly
\* when no root matches; the same answer for every order of the listing when
\* no two sections own a longest matching root.
C2_LongestFirstListed ==
    Resolved =>
        /\ (Matching(last.file, last.listing.sections) = {}) <=> (last.lib1 = NoLib)
        /\ last.lib1 # NoLib =>
               LET m == FirstLongest(last.file, last.listing.sections)
               IN  last.lib1 = <<m.section_id, m.section_title>>
        /\ Cardinality({m.section_id : m \in Longest(last.file, last.listing.sections)}) <= 1
           => \A other \in Reordered(last.listing.sections) :
                  get_library_id_for_path(last.file, Response(TRUE, other)) = last.lib1

\* nested roots: two roots of different lengths match and the longer one is
\* listed last
C2_Witness ==
    /\ Resolved
    /\ \E m, o \in Matching(last.file, last.listing.sections) :
         /\ Len(normpath(o.location_path)) < Len(normpath(m.location_path))
         /\ last.lib1 = <<m.section_id, m.section_title>>
         /\ last.listing.sections[1].key = o.section_id

\* root is path, or a directory above it: its components are the first
\* components of path
ComponentPrefix(root, path) ==
    LET r == split(normpath(root))
        c == split(normpath(path))
    IN  Len(r) <= Len(c) /\ SubSeq(c, 1, Len(r)) = r

\* C3: a path resolves to a section only through a root whose components are
\* the leading components of the path.
C3_WholeComponents ==
    (Resolved /\ last.lib1 # NoLib) =>
        \E m \in Pairs(last.listing.sections) :
            /\ last.lib1 = <<m.section_id, m.section_title>>
            /\ ComponentPrefix(m.location_path, last.file)

\* the step recorded last.file as missing
RecordedMissing == last.op = "file" /\ ~last.found /\ Truthy(last.lib2[2])

\* the section a path resolves to in the server's present listing
SectionOf(path) == get_library_id_for_path(path, Response(TRUE, catalog.sections))

\* C4: a file is recorded as missing only if it resolves to a section and the
\* files the server holds for that section do not contain it.
C4_MissingOnlyIfAbsent ==
    RecordedMissing =>
        /\ SectionOf(last.file) # NoLib
        /\ last.file \notin parts_of(catalog.items, SectionOf(last.file)[1])

FetchesOf(library_id) == {i \in DOMAIN fetches : fetches[i].library_id = library_id}

Built(library_id) == \E i \in FetchesOf(library_id) : fetches[i].ok

\* C5: a section whose fetch failed is left without a set in library_files,
\* and a membership check that fetches nothing rests on a fetch that succeeded.
C5_FailedBuildRetried ==
    /\ \A i \in DOMAIN fetches :
         (~fetches[i].ok /\ ~Built(fetches[i].library_id))
             => fetches[i].library_id \notin DOMAIN library_files
    /\ (last.op = "file" /\ Truthy(last.lib1[1]) /\ ~last.fetched) => Built(last.lib1[1])

\* C6: within a run nothing is fetched for a section after a fetch of it has
\* succeeded, and library_files keeps for it the set that fetch read.
C6_BuiltOnce ==
    \A i \in DOMAIN fetches :
        fetches[i].ok =>
            /\ \A j \in FetchesOf(fetches[i].library_id) : j <= i
            /\ fetches[i].library_id \in DOMAIN library_files
            /\ library_files[fetches[i].library_id] = fetches[i].parts

\* a membership check answered from the set an earlier step of the run built,
\* after the server's files of the section changed
C6_Witness ==
    /\ last.op = "file"
    /\ Truthy(last.lib1[1])
    /\ ~last.fetched
    /\ Built(last.lib1[1])
    /\ library_files[last.lib1[1]] # {}
    /\ library_files[last.lib1[1]] # parts_of(catalog.items, last.lib1[1])

\* C7: a run starts with library_files empty, and every set it holds during
\* the run was read from the server by a fetch of that run.
C7_StartsClean ==
    /\ last.op \in {"start", "abort", "raise"} => library_files = <<>>
    /\ \A library_id \in DOMAIN library_files :
         \E i \in FetchesOf(library_id) :
             library_files[library_id] = IF fetches[i].ok THEN fetches[i].parts ELSE {}

\* the second run fetches the items of a section again and finds the file in
\* what the server holds after its contents changed
C7_Witness ==
    /\ run = 2
    /\ changes = 1
    /\ last.op = "file"
    /\ last.fetched
    /\ last.found

HasType(sections, type) == \E i \in DOMAIN sections : sections[i].type = type

\* C8: a run that starts while the server lists no movie section or no show
\* section records one error, hands over the summary and ends with nothing
\* walked, scanned or requested.
C8_FailFast ==
    (last.op \in {"start", "abort"}
        /\ ~(HasType(catalog.sections, "movie") /\ HasType(catalog.sections, "show")))
    => /\ last.op = "abort"
       /\ pc = "idle"
       /\ Len(stats.errors) = 1
       /\ stats.total_scanned = 0
       /\ requests = <<>>

\* C9 as stated: the folder of a failed request is not in scanned_folders.
C9_FailedNotMarked ==
    \A i \in DOMAIN requests : ~requests[i].ok => requests[i].folder_path \notin scanned_folders

\* C9, amended: the folder of every request, failed or not, is in
\* scanned_folders, and scanned_folders holds nothing else.
C9_MarkedAfterAnyRequest ==
    pc = "walk" =>
        scanned_folders = {requests[i].folder_path : i \in DOMAIN requests}

\* a request failed and the step after it recorded a file of the same folder
\* as missing without a request
C9_Witness ==
    /\ RecordedMissing
    /\ requests # <<>>
    /\ ~requests[Len(requests)].ok
    /\ requests[Len(requests)].folder_path = dirname(last.file)
    /\ Cardinality({p \in MissingPaths : dirname(p) = dirname(last.file)}) = 2

\* C10: every failed request to the server of a run is in RunStats.errors.
C10_FailuresRecorded == Len(stats.errors) >= faults

\* the path of the file os.walk yields next
NextPath == pathjoin(Head(todo).root, Head(todo).file)

\* the file os.walk yields next passes the tests of lines 455-467
Candidate ==
    /\ pc = "walk"
    /\ todo # <<>>
    /\ ~startswith(Head(todo).file, <<".">>)
    /\ lower(splitext1(Head(todo).file)) \in MEDIA_EXTENSIONS
    /\ ~(settings.symlink_check /\ is_broken_symlink(NextPath, disk))

\* the step is the body of the loop for the next file
Walked == todo # <<>> /\ todo' = Tail(todo)

\* C11: the step for a candidate file whose path starts with no root of the
\* server's sections counts it as scanned, appends one warning, records
\* nothing as missing and issues no request.
C11_UnmatchedWarned ==
    [][(Candidate /\ Walked /\ Matching(NextPath, catalog.sections) = {})
       => /\ stats'.total_scanned = stats.total_scanned + 1
          /\ Len(stats'.warnings) = Len(stats.warnings) + 1
          /\ stats'.missing_items = stats.missing_items
          /\ stats'.total_missing = stats.total_missing
          /\ requests' = requests]_vars

\* C12: time.sleep(scan_interval) follows a request, within the step that
\* issued it, exactly when the request succeeded.
C12_PacedAfterSuccess ==
    \A i \in DOMAIN requests : requests[i].slept <=> requests[i].ok

\* a run whose first request succeeded and was paced and whose second
\* request failed and was not
C12_Witness ==
    /\ Len(requests) >= 2
    /\ requests[1].ok /\ requests[1].slept
    /\ ~requests[2].ok /\ ~requests[2].slept

\* the file os.walk yields next is a media file and a symbolic link to nothing
BrokenNext ==
    /\ pc = "walk"
    /\ todo # <<>>
    /\ ~startswith(Head(todo).file, <<".">>)
    /\ lower(splitext1(Head(todo).file)) \in MEDIA_EXTENSIONS
    /\ is_broken_symlink(NextPath, disk)

\* C13: with symlink_check on, the step for a broken symbolic link adds one
\* to broken_symlinks and leaves the rest of RunStats, scanned_folders,
\* library_files and the requests to the server as they were; with
\* symlink_check off broken_symlinks stays 0 and the link goes through the
\* body of the loop as a candidate, counted as scanned.
C13_BrokenOnlyCounted ==
    [][/\ ~settings.symlink_check => stats'.broken_symlinks = 0
       /\ (BrokenNext /\ Walked)
          => IF settings.symlink_check
             THEN /\ stats' = [stats EXCEPT !.broken_symlinks = @ + 1]
                  /\ UNCHANGED <<scanned_folders, library_files, requests, fetches,
                                 faults, events>>
                  /\ last'.op = "broken"
             ELSE /\ stats'.total_scanned = stats.total_scanned + 1
                  /\ last'.op = "file"]_vars

\* a broken link skipped after files of the run were scanned, recorded as
\* missing and requested
C13_Witness ==
    /\ last.op = "broken"
    /\ settings.symlink_check
    /\ stats.broken_symlinks = 1
    /\ stats.total_missing >= 1
    /\ requests # <<>>

\* what os.walk yields for the configured roots that exist, in their order
RECURSIVE Entries(_)
Entries(dirs) ==
    IF dirs = <<>> THEN <<>>
    ELSE (IF Head(dirs) \in disk.dirs THEN disk.walk[Head(dirs)] ELSE <<>>)
         \o Entries(Tail(dirs))

\* the entry passes the tests of lines 455-467
IsCandidate(e) ==
    /\ ~startswith(e.file, <<".">>)
    /\ lower(splitext1(e.file)) \in MEDIA_EXTENSIONS
    /\ ~(settings.symlink_check /\ is_broken_symlink(pathjoin(e.root, e.file), disk))

Candidates(entries) == {i \in DOMAIN entries : IsCandidate(entries[i])}

\* the step takes the next configured root and it is not a directory
MissingRoot ==
    /\ pc = "walk"
    /\ todo = <<>>
    /\ di < Len(Directories)
    /\ di' = di + 1
    /\ Directories[di + 1] \notin disk.dirs

\* C14: the step for a configured root that is not a directory appends one
\* error and leaves the rest of RunStats, scanned_folders, library_files and
\* the requests as they were, so the roots after it start from the state the
\* roots before it left; the run goes on, and at its end total_scanned counts
\* the candidate files of every root that exists.
C14_MissingRootSkipped ==
    [][/\ last'.op = "end" =>
            stats'.total_scanned = Cardinality(Candidates(Entries(Directories)))
       /\ MissingRoot
          => /\ stats' = [stats EXCEPT
                             !.errors = Append(@, <<"Directory not found: ",
                                                    Directories[di + 1]>>)]
             /\ todo' = <<>>
             /\ pc' = "walk"
             /\ UNCHANGED <<scanned_folders, library_files, library_ids, library_paths,
                            requests, fetches, faults, events>>]_vars

\* a run over /m, the missing /n and /t ended with the one error and with
\* missing files recorded under /m and under /t
C14_Witness ==
    /\ last.op = "end"
    /\ rN \notin disk.dirs
    /\ stats.errors = <<(<<"Directory not found: ", rN>>)>>
    /\ \E p, q \in MissingPaths : startswith(p, rM) /\ startswith(q, rT)

\* the run has returned: its summary was handed over
Finished == last.op \in {"end", "abort"}

\* C15: a run that follows a run with the same filesystem, the same catalog
\* and the same answers of the server ends with the RunStats and the sequence
\* of refresh requests the run before it ended with.
C15_SameOutcomeTwice ==
    (Finished /\ prev.valid /\ prev.changes = changes)
        => /\ stats = prev.stats
           /\ requests = prev.requests

\* the second of two runs ended, both having recorded missing files, issued
\* requests and met the failing request of the plan
C15_Witness ==
    /\ Finished
    /\ prev.valid
    /\ prev.changes = changes
    /\ run = 2
    /\ faults >= 1
    /\ stats.total_missing >= 2
    /\ requests # <<>>
    /\ library_ids # <<>>

\* C16: a call of run_scan starts only from the scheduler loop, every run
\* started before it having handed over its summary and returned.
C16_RunsDoNotOverlap ==
    [][run' # run => (pc = "idle" /\ delivered = run /\ run' = run + 1)]_vars

\* the second run is walking, the first one having handed over its summary
C16_Witness ==
    /\ run = 2
    /\ pc = "walk"
    /\ delivered = 1
    /\ last.op = "file"

\* C17: the step that hands a summary to a webhook that fails leaves the
\* RunStats as the run collected it (the one error, for a run that ends for
\* want of a library) and leaves the process in the scheduler loop, from
\* where the next run starts.
C17_NotificationFailureContained ==
    [][(delivered' = delivered + 1 /\ last'.summary = "failed")
       => /\ last'.op = "end" => stats' = stats
          /\ last'.op = "abort" =>
                stats' = [RunStats EXCEPT
                             !.errors = <<(<<"Could not find both Movie and TV Show libraries.">>)>>]
          /\ pc' = "idle"
          /\ in_scheduler_loop(pc')]_vars

\* the webhook failed for the first run, which had recorded missing files,
\* and the second run can start
C17_Witness ==
    /\ last.op = "end"
    /\ last.summary = "failed"
    /\ run = 1
    /\ delivered = 1
    /\ stats.total_missing >= 1
    /\ ENABLED StartRun

\* C18: every run that is no longer in progress has handed its summary to
\* send_discord_summary, once, whichever request to the server failed; a run
\* in progress has not handed it over yet.
C18_EveryRunDelivers ==
    /\ pc # "walk" => delivered = run
    /\ pc = "walk" => delivered = run - 1

\* ---- the reference reconciliation of a filesystem against a catalog
\* the pairs whose root is the path or a directory above it
Owning(path, sections) ==
    {m \in Pairs(sections) : ComponentPrefix(m.location_path, path)}

\* those of the greatest root length
Nearest(path, sections) ==
    {m \in Owning(path, sections) :
        \A o \in Owning(path, sections) :
            Len(normpath(o.location_path)) <= Len(normpath(m.location_path))}

\* the section a path belongs to: the first listed of the nearest roots
Owner(path) ==
    IF Nearest(path, catalog.sections) = {} THEN NoLib
    ELSE LET ms == matching_sections(catalog.sections)
             i == CHOOSE k \in DOMAIN ms :
                      /\ ms[k] \in Nearest(path, catalog.sections)
                      /\ \A j \in 1..(k - 1) : ms[j] \notin Nearest(path, catalog.sections)
         IN  <<ms[i].section_id, ms[i].section_title>>

\* the candidate files in walk order
RECURSIVE CandidatePaths(_)
CandidatePaths(entries) ==
    IF entries = <<>> THEN <<>>
    ELSE (IF IsCandidate(Head(entries))
          THEN <<pathjoin(Head(entries).root, Head(entries).file)>>
          ELSE <<>>)
         \o CandidatePaths(Tail(entries))

\* each path with the section resolve gives it
Assigned(paths, resolve(_)) ==
    [i \in DOMAIN paths |-> [path |-> paths[i], lib |-> resolve(paths[i])]]

\* the paths that have a section whose files do not hold them
RECURSIVE Absent(_)
Absent(assigned) ==
    IF assigned = <<>> THEN <<>>
    ELSE (IF Head(assigned).lib # NoLib
             /\ Head(assigned).path \notin parts_of(catalog.items, Head(assigned).lib[1])
          THEN <<Head(assigned)>>
          ELSE <<>>)
         \o Absent(Tail(assigned))

RECURSIVE Under(_, _)
Under(title, missing) ==
    IF missing = <<>> THEN <<>>
    ELSE (IF Head(missing).lib[2] = title THEN <<Head(missing).path>> ELSE <<>>)
         \o Under(title, Tail(missing))

\* RunStats and the requests are what the reference gives for these missing files
Reference(missing) ==
    /\ stats.total_scanned = Len(CandidatePaths(Entries(Directories)))
    /\ stats.total_missing = Len(missing)
    /\ DOMAIN stats.missing_items = {missing[i].lib[2] : i \in DOMAIN missing}
    /\ \A title \in DOMAIN stats.missing_items :
         stats.missing_items[title] = Under(title, missing)
    /\ {<<requests[i].folder_path, requests[i].library_id>> : i \in DOMAIN requests}
          = {<<dirname(missing[i].path), missing[i].lib[1]>> : i \in DOMAIN missing}
    /\ Len(requests) = Cardinality({dirname(missing[i].path) : i \in DOMAIN missing})

\* C19: a run that ends in a process where no request has failed and the
\* catalog has not changed has counted the candidate files of the existing
\* roots, recorded under each title, in walk order, the files that belong to
\* that section and that the section does not hold, and issued one request
\* per folder of such a file, to the section the file belongs to.
C19_ReferenceOutcome ==
    (last.op = "end" /\ events = 0)
        => Reference(Absent(Assigned(CandidatePaths(Entries(Directories)), Owner)))

\* C20: while the catalog is the one the run started with, a file resolves,
\* in is_in_plex, to the section it has in that catalog's listing, whether a
\* listing fails or not; and the section run_scan records a missing file
\* under and addresses its request to is the one is_in_plex resolved.
C20_OneSectionList ==
    last.op = "file" =>
        /\ changes = 0 => last.lib1 = SectionOf(last.file)
        /\ ~last.found => last.lib2 = last.lib1

\* the step leaves the next file in the set library_files holds for the
\* section the file resolves to in the server's listing
InInventory ==
    /\ SectionOf(NextPath) # NoLib
    /\ SectionOf(NextPath)[1] \in DOMAIN library_files'
    /\ NextPath \in library_files'[SectionOf(NextPath)[1]]

\* C21: the step for a candidate file that the set of its section holds adds
\* one to total_scanned and leaves the rest of RunStats, scanned_folders and
\* the requests, with their pacing delays, as they were.
C21_PresentOnlyCounted ==
    [][(Candidate /\ Walked /\ InInventory)
       => /\ stats' = [stats EXCEPT !.total_scanned = @ + 1]
          /\ UNCHANGED <<scanned_folders, requests>>]_vars

RECURSIVE SumOfLengths(_, _)
SumOfLengths(lists, titles) ==
    IF titles = {} THEN 0
    ELSE LET title == CHOOSE t \in titles : TRUE
         IN  Len(lists[title]) + SumOfLengths(lists, titles \ {title})

\* C22: total_missing is the sum of the lengths of the lists of
\* missing_items and at most total_scanned, no path is recorded twice, the
\* requests of the run are at most total_missing, and every folder in
\* scanned_folders is the parent of a path recorded as missing.
C22_CountersConsistent ==
    /\ stats.total_missing = SumOfLengths(stats.missing_items, DOMAIN stats.missing_items)
    /\ stats.total_missing <= stats.total_scanned
    /\ \A t, u \in DOMAIN stats.missing_items :
         \A i \in DOMAIN stats.missing_items[t], j \in DOMAIN stats.missing_items[u] :
             stats.missing_items[t][i] = stats.missing_items[u][j] => (t = u /\ i = j)
    /\ Len(requests) <= stats.total_missing
    /\ \A folder \in scanned_folders : \E p \in MissingPaths : dirname(p) = folder

====
